---- MODULE Spec2Model ----
(***************************************************************************)
(* Model of src/app.py: the Lotto Max draw-history analyzers.              *)
(*                                                                         *)
(* A draw is the record parse_html_data appends: its date and the list of  *)
(* its numbers in page order.  The date is the "%Y-%m-%d" string of the    *)
(* source; the model keeps the day's ordinal, whose integer order is the   *)
(* lexicographic order of those zero-padded strings.  The year field is    *)
(* read by analyze_by_year only, which is not modelled.                    *)
(*                                                                         *)
(* Tables (pandas DataFrames, Counters, dicts) are sequences of rows in    *)
(* row / insertion order.  An average (a Python float quotient) is kept    *)
(* as the exact fraction [num, den].                                       *)
(***************************************************************************)
EXTENDS Integers, Sequences, FiniteSets

VARIABLES
    draws,          \* all_draws: the draws collected so far
    pc,             \* "fetch": collecting draws; "called": an analyzer has run;
                    \* "scored": find_hot_cold_numbers has run on its table
    op,             \* the analyzer that ran last ("none" before any)
    k,              \* combination_size passed to analyze_combinations
    main_freq_df,   \* analyze_frequency(...)["main"], kept for find_hot_cold_numbers
    ret             \* [outcome |-> "return" | "raise", value |-> ...] of the last call

vars == <<draws, pc, op, k, main_freq_df, ret>>

----------------------------------------------------------------------------
(* Program constants: literals of src/app.py *)

DRAW_SIZE == 7
POOL_SIZE == 50
HIGH_LOW_MIDPOINT == 25
HOT_COLD_TOP_N == 10

Pool == 1..POOL_SIZE

(* Bounds of the model *)

MaxDraws == 3       \* draws collected in Spec
ExtraK == 1         \* combination sizes tried: -ExtraK .. DRAW_SIZE + ExtraK
MaxHistory == 10    \* draws collected in SpecGap

(* The draws a page can hold in the model: well-formed (DRAW_SIZE distinct *)
(* numbers of the pool), in page order, which need not be ascending.       *)
SampleDraws ==
    << <<40, 3, 25, 26, 2, 10, 20>>,
       <<1, 2, 3, 10, 20, 30, 40>>,
       <<49, 50, 7, 26, 27, 28, 1>> >>

(* The two draws SpecGap builds its long histories from. *)
GapDraws ==
    << <<1, 2, 3, 10, 20, 30, 40>>,
       <<49, 50, 7, 26, 27, 28, 1>> >>

(* The order in which the pages list the draws of max consecutive days:    *)
(* the date of the n-th entry collected.  The first entry's date tells     *)
(* the order: 1 oldest first, max newest first, 2 each two days swapped.   *)
PageOrders == {"oldest_first", "newest_first", "pairs_swapped"}

DateAt(order, n, max) ==
    IF order = "oldest_first" THEN n
    ELSE IF order = "newest_first" THEN max + 1 - n
    ELSE IF n % 2 = 0 THEN n - 1
    ELSE IF n = max THEN n
    ELSE n + 1

PageOrderOf(ds, max) ==
    CHOOSE order \in PageOrders : ds[1].date = DateAt(order, 1, max)

----------------------------------------------------------------------------
(* Python built-ins *)

Range(s) == {s[i] : i \in 1..Len(s)}

(* a list comprehension: the list of the values of f, each computed once *)
List(f) == f \o <<>>

Reverse(s) == List([i \in 1..Len(s) |-> s[Len(s) + 1 - i]])

RECURSIVE SumSeq(_)
SumSeq(s) == IF s = <<>> THEN 0 ELSE Head(s) + SumSeq(Tail(s))

MinSeq(s) == CHOOSE x \in Range(s) : \A y \in Range(s) : x <= y

MaxSeq(s) == CHOOSE x \in Range(s) : \A y \in Range(s) : x >= y

(* a / b of two ints: a float, kept exact. *)
Ratio(a, b) == [num |-> a, den |-> b]

(* x < y for fractions of positive denominators *)
RatioLess(x, y) == x.num * y.den < y.num * x.den

(* the keys of a sort whose keys are ints *)
IntKeys(ints) == List([i \in 1..Len(ints) |-> Ratio(ints[i], 1)])

(* list.sort / sorted, a stable sort of s by ascending keys (keys[i] the   *)
(* key of s[i]): an item lands after the items of smaller key and after    *)
(* the earlier items of equal key.                                         *)
StableSort(s, keys) ==
    LET n == Len(s)
        pos == List([i \in 1..n |->
                  1 + Cardinality({j \in 1..n :
                          \/ RatioLess(keys[j], keys[i])
                          \/ j < i /\ ~RatioLess(keys[i], keys[j])})])
    IN  List([p \in 1..n |-> s[CHOOSE i \in 1..n : pos[i] = p]])

(* sorted(numbers) *)
Sorted(numbers) == StableSort(numbers, IntKeys(numbers))

(* the dates of the draws, as sort keys *)
DateKeys(ds) == IntKeys(List([i \in 1..Len(ds) |-> ds[i].date]))

(* enumerate(draws): the draws in the order they were passed in *)
SortedByDate_unsorted(ds) == ds

(* sorted(draws, key=lambda x: x["date"]) *)
SortedByDate(ds) == StableSort(ds, DateKeys(ds))

(* collections.Counter(items), also built by counter[key] += 1 per item:   *)
(* rows [key, count], one per distinct item, in first-insertion order.     *)
CounterOf(items) ==
    LET n == Len(items)
        isFirst == List([i \in 1..n |-> \A j \in 1..(i - 1) : items[j] # items[i]])
        rank == List([i \in 1..n |-> Cardinality({j \in 1..i : isFirst[j]})])
        at(m) == CHOOSE i \in 1..n : isFirst[i] /\ rank[i] = m
    IN  List([m \in 1..(IF n = 0 THEN 0 ELSE rank[n]) |->
                LET key == items[at(m)]
                IN  [key |-> key,
                     count |-> Cardinality({j \in 1..n : items[j] = key})]])

(* sorted(counter.items()) for integer keys *)
SortedItems(c) == StableSort(c, IntKeys(List([i \in 1..Len(c) |-> c[i].key])))

(* DataFrame.head(n) *)
HeadRows(rows, n) == SubSeq(rows, 1, IF Len(rows) < n THEN Len(rows) ELSE n)

(* DataFrame.sort_values(by=..., ascending=...) of rows whose by-column is *)
(* keys.  No kind is passed, so the sort is numpy's quicksort, which is    *)
(* not stable: the order of rows of equal key is the build's.  tie =       *)
(* "kept" leaves them in incoming order, in both directions (a build that  *)
(* sorts short arrays by insertion); tie = "reversed" stands for a build   *)
(* that does not, and puts them in the opposite order.                     *)
TieOrders == {"kept", "reversed"}

Negated(keys) == List([i \in 1..Len(keys) |-> Ratio(0 - keys[i].num, keys[i].den)])

SortValues(rows, keys, ascending, tie) ==
    LET signed == IF ascending THEN keys ELSE Negated(keys)
    IN  IF tie = "kept" THEN StableSort(rows, signed)
        ELSE StableSort(Reverse(rows), Reverse(signed))

(* the column "frequency" of a table *)
FrequencyColumn(rows) == IntKeys(List([i \in 1..Len(rows) |-> rows[i].frequency]))

----------------------------------------------------------------------------
(* analyze_frequency *)

RECURSIVE MainNumbers(_)
MainNumbers(ds) ==
    IF ds = <<>> THEN <<>>
    ELSE MainNumbers(SubSeq(ds, 1, Len(ds) - 1)) \o ds[Len(ds)].numbers

(* Counter(set(main_numbers)): every number counted once *)
analyze_frequency_of_set(ds, tie) ==
    LET main_freq == CounterOf(MainNumbers(ds))
        rows == List([i \in 1..Len(main_freq) |->
                    [number |-> main_freq[i].key, frequency |-> 1]])
    IN  SortValues(rows, FrequencyColumn(rows), FALSE, tie)

analyze_frequency(ds, tie) ==
    LET main_freq == CounterOf(MainNumbers(ds))
        rows == List([i \in 1..Len(main_freq) |->
                    [number |-> main_freq[i].key, frequency |-> main_freq[i].count]])
    IN  SortValues(rows, FrequencyColumn(rows), FALSE, tie)

----------------------------------------------------------------------------
(* analyze_combinations *)

(* itertools.combinations(s, r) for r >= 0, in the order it yields. *)
RECURSIVE Combinations(_, _)
Combinations(s, r) ==
    IF r = 0 THEN << <<>> >>
    ELSE IF Len(s) < r THEN <<>>
    ELSE LET with == Combinations(Tail(s), r - 1)
         IN  List([i \in 1..Len(with) |-> <<Head(s)>> \o with[i]])
             \o Combinations(Tail(s), r)

(* str(n) of an int n >= 0, as its list of characters. *)
DigitChars == <<"0", "1", "2", "3", "4", "5", "6", "7", "8", "9">>

RECURSIVE StrInt(_)
StrInt(n) ==
    IF n < 10 THEN <<DigitChars[n + 1]>>
    ELSE StrInt(n \div 10) \o <<DigitChars[(n % 10) + 1]>>

(* str(combo) of a tuple of ints: "()", "(3,)", "(3, 7)". *)
RECURSIVE StrItems(_)
StrItems(t) ==
    IF Len(t) = 1 THEN StrInt(t[1])
    ELSE StrItems(SubSeq(t, 1, Len(t) - 1)) \o <<",", " ">> \o StrInt(t[Len(t)])

StrTuple(t) ==
    IF t = <<>> THEN <<"(", ")">>
    ELSE IF Len(t) = 1 THEN <<"(">> \o StrInt(t[1]) \o <<",", ")">>
    ELSE <<"(">> \o StrItems(t) \o <<")">>

(* combinations(numbers, r), without sorted(): the combos in page order *)
RECURSIVE AllCombos_unsorted(_, _)
AllCombos_unsorted(ds, r) ==
    IF ds = <<>> THEN <<>>
    ELSE AllCombos_unsorted(SubSeq(ds, 1, Len(ds) - 1), r)
         \o Combinations(ds[Len(ds)].numbers, r)

(* every combo the loops of lines 92-95 count, in the order they count it *)
RECURSIVE AllCombos(_, _)
AllCombos(ds, r) ==
    IF ds = <<>> THEN <<>>
    ELSE AllCombos(SubSeq(ds, 1, Len(ds) - 1), r)
         \o Combinations(Sorted(ds[Len(ds)].numbers), r)

analyze_combinations(ds, combination_size, tie) ==
    IF ds # <<>> /\ combination_size < 0
    THEN \* itertools.combinations: "r must be non-negative"
         [outcome |-> "raise", error |-> "ValueError"]
    ELSE LET combinations_count == CounterOf(AllCombos(ds, combination_size))
             rows == List([i \in 1..Len(combinations_count) |->
                        [combination |-> StrTuple(combinations_count[i].key),
                         frequency |-> combinations_count[i].count]])
         IN  [outcome |-> "return",
              value |-> SortValues(rows, FrequencyColumn(rows), FALSE, tie)]

----------------------------------------------------------------------------
(* calculate_additional_stats *)

(* num % 2 == 0: counts the even numbers *)
IsOdd_even(num) == num % 2 = 0

IsOdd(num) == num % 2 = 1

(* num >= 25: takes the midpoint for high *)
IsHigh_inclusive(num) == num >= HIGH_LOW_MIDPOINT

IsHigh(num) == num > HIGH_LOW_MIDPOINT

(* sum(1 for num in numbers if ...) *)
OddCount(numbers) == Cardinality({i \in 1..Len(numbers) : IsOdd(numbers[i])})

HighCount(numbers) == Cardinality({i \in 1..Len(numbers) : IsHigh(numbers[i])})

ConsecutiveCount(numbers) ==
    LET sorted_nums == Sorted(numbers)
    IN  Cardinality({i \in 1..(Len(sorted_nums) - 1) :
                        sorted_nums[i + 1] - sorted_nums[i] = 1})

(* the f-strings of the three distributions' keys, as their pieces *)
OddLabel(odd) == <<odd, " odd, ", DRAW_SIZE - odd, " even">>

HighLabel(high) == <<high, " high, ", DRAW_SIZE - high, " low">>

PairsLabel(pairs) == <<pairs, " consecutive pairs">>

(* {f"...": count for key, count in sorted(Counter(counts).items())} *)
OddEvenDistribution(odd_counts) ==
    LET items == SortedItems(CounterOf(odd_counts))
    IN  List([i \in 1..Len(items) |->
                [label |-> OddLabel(items[i].key), count |-> items[i].count]])

HighLowDistribution(high_counts) ==
    LET items == SortedItems(CounterOf(high_counts))
    IN  List([i \in 1..Len(items) |->
                [label |-> HighLabel(items[i].key), count |-> items[i].count]])

ConsecutivePairsDistribution(consecutive_counts) ==
    LET items == SortedItems(CounterOf(consecutive_counts))
    IN  List([i \in 1..Len(items) |->
                [label |-> PairsLabel(items[i].key), count |-> items[i].count]])

(* lines 126-168: the statistics of a non-empty list of draws *)
StatsOf(ds) ==
    LET sums == List([i \in 1..Len(ds) |-> SumSeq(ds[i].numbers)])
        odd_counts == List([i \in 1..Len(ds) |-> OddCount(ds[i].numbers)])
        high_counts == List([i \in 1..Len(ds) |-> HighCount(ds[i].numbers)])
        consecutive_counts == List([i \in 1..Len(ds) |-> ConsecutiveCount(ds[i].numbers)])
        ranges == List([i \in 1..Len(ds) |-> MaxSeq(ds[i].numbers) - MinSeq(ds[i].numbers)])
    IN  [outcome |-> "return",
         value |->
           [average_sum |-> Ratio(SumSeq(sums), Len(sums)),
            min_sum |-> MinSeq(sums),
            max_sum |-> MaxSeq(sums),
            odd_even_distribution |-> OddEvenDistribution(odd_counts),
            avg_odd_numbers |-> Ratio(SumSeq(odd_counts), Len(odd_counts)),
            high_low_distribution |-> HighLowDistribution(high_counts),
            avg_high_numbers |-> Ratio(SumSeq(high_counts), Len(high_counts)),
            consecutive_pairs_distribution |-> ConsecutivePairsDistribution(consecutive_counts),
            avg_consecutive_pairs |->
                Ratio(SumSeq(consecutive_counts), Len(consecutive_counts)),
            avg_range |-> Ratio(SumSeq(ranges), Len(ranges)),
            min_range |-> MinSeq(ranges),
            max_range |-> MaxSeq(ranges)]]

(* without the guard of lines 123-124, line 127 divides by len(sums) = 0 *)
calculate_additional_stats_unguarded(ds) ==
    IF ds = <<>> THEN [outcome |-> "raise", error |-> "ZeroDivisionError"]
    ELSE StatsOf(ds)

(* an empty dict is the function of empty domain *)
calculate_additional_stats(ds) ==
    IF ds = <<>> THEN [outcome |-> "return", value |-> <<>>]
    ELSE StatsOf(ds)

----------------------------------------------------------------------------
(* find_hot_cold_numbers *)

(* the column "deviation" of a table *)
DeviationColumn(rows) == List([i \in 1..Len(rows) |-> rows[i].deviation])

(* the rows of freq_df.copy() with the columns expected and deviation:     *)
(* expected = total_draws * 7 / 50, deviation = (f - expected) / expected  *)
(* * 100 = (f * 50 - total_draws * 7) * 100 / (total_draws * 7).           *)
ScoredRows(freq_df, total_draws) ==
    List([i \in 1..Len(freq_df) |->
        [number |-> freq_df[i].number,
         frequency |-> freq_df[i].frequency,
         expected |-> Ratio(total_draws * DRAW_SIZE, POOL_SIZE),
         deviation |->
            Ratio((freq_df[i].frequency * POOL_SIZE - total_draws * DRAW_SIZE) * 100,
                  total_draws * DRAW_SIZE)]])

find_hot_cold_numbers(freq_df, total_draws, period, tieHot, tieCold) ==
    LET scored == ScoredRows(freq_df, total_draws)
    IN  [outcome |-> "return",
         value |->
           [period |-> period,
            hot |-> HeadRows(SortValues(scored, DeviationColumn(scored), FALSE, tieHot),
                             HOT_COLD_TOP_N),
            cold |-> HeadRows(SortValues(scored, DeviationColumn(scored), TRUE, tieCold),
                              HOT_COLD_TOP_N)]]

----------------------------------------------------------------------------
(* find_patterns *)

(* The scan of lines 191-198 for one number: last_seen is <<>> for None    *)
(* and <<i>> for the 0-based index i.                                      *)
GapScan(sorted_draws, num) ==
    LET st[n \in 0..Len(sorted_draws)] ==
            IF n = 0 THEN [last_seen |-> <<>>, gaps |-> <<>>]
            ELSE LET prev == st[n - 1]
                 IN  IF num \in Range(sorted_draws[n].numbers)
                     THEN [last_seen |-> <<n - 1>>,
                           gaps |-> IF prev.last_seen # <<>>
                                    THEN Append(prev.gaps, (n - 1) - prev.last_seen[1])
                                    ELSE prev.gaps]
                     ELSE prev
    IN  st[Len(sorted_draws)]

(* current_gap as len(draws) - 1 - last_seen: the distance to the last index *)
GapRecord_last_index(scan, total) ==
    [avg_gap |-> Ratio(SumSeq(scan.gaps), Len(scan.gaps)),
     max_gap |-> MaxSeq(scan.gaps),
     current_gap |-> IF scan.last_seen # <<>> THEN total - 1 - scan.last_seen[1]
                     ELSE "None"]

GapRecord(scan, total) ==
    [avg_gap |-> Ratio(SumSeq(scan.gaps), Len(scan.gaps)),
     max_gap |-> MaxSeq(scan.gaps),
     current_gap |-> IF scan.last_seen # <<>> THEN total - scan.last_seen[1]
                     ELSE "None"]

find_patterns(ds) ==
    LET sorted_draws == SortedByDate(ds)
        reported == {num \in Pool : GapScan(sorted_draws, num).gaps # <<>>}
    IN  [outcome |-> "return",
         value |->
           [number_gaps |->
              [num \in reported |-> GapRecord(GapScan(sorted_draws, num), Len(ds))]]]

----------------------------------------------------------------------------
(* The program: draws are collected (fetch_historical_data extending       *)
(* all_draws with what parse_html_data appends), then an analyzer is       *)
(* applied to them; find_hot_cold_numbers takes the table analyze_frequency *)
(* returned and len(all_draws), as main does.                              *)

Init ==
    /\ draws = <<>>
    /\ pc = "fetch"
    /\ op = "none"
    /\ k = 0
    /\ main_freq_df = <<>>
    /\ ret = [outcome |-> "none"]

(* parse_html_data: draws.append(...) of one more entry of the pages, out  *)
(* of samples, up to max entries.                                          *)
ParseFrom(samples, max) ==
    /\ pc = "fetch"
    /\ Len(draws) < max
    /\ \E i \in 1..Len(samples) :
          \E order \in IF draws = <<>> THEN PageOrders ELSE {PageOrderOf(draws, max)} :
             draws' = Append(draws, [date |-> DateAt(order, Len(draws) + 1, max),
                                     numbers |-> samples[i]])
    /\ UNCHANGED <<pc, op, k, main_freq_df, ret>>

ParseDraw == ParseFrom(SampleDraws, MaxDraws)

AnalyzeFrequency ==
    /\ pc = "fetch"
    /\ \E tie \in TieOrders :
          /\ main_freq_df' = analyze_frequency(draws, tie)
          /\ ret' = [outcome |-> "return", value |-> main_freq_df']
    /\ pc' = "called"
    /\ op' = "analyze_frequency"
    /\ UNCHANGED <<draws, k>>

AnalyzeCombinations ==
    /\ pc = "fetch"
    /\ \E r \in (0 - ExtraK)..(DRAW_SIZE + ExtraK), tie \in TieOrders :
          /\ k' = r
          /\ ret' = analyze_combinations(draws, r, tie)
    /\ pc' = "called"
    /\ op' = "analyze_combinations"
    /\ UNCHANGED <<draws, main_freq_df>>

CalculateAdditionalStats ==
    /\ pc = "fetch"
    /\ ret' = calculate_additional_stats(draws)
    /\ pc' = "called"
    /\ op' = "calculate_additional_stats"
    /\ UNCHANGED <<draws, k, main_freq_df>>

FindHotColdNumbers ==
    /\ pc = "called"
    /\ op = "analyze_frequency"
    /\ \E tieHot \in TieOrders, tieCold \in TieOrders :
          ret' = find_hot_cold_numbers(main_freq_df, Len(draws), "all time",
                                       tieHot, tieCold)
    /\ pc' = "scored"
    /\ op' = "find_hot_cold_numbers"
    /\ UNCHANGED <<draws, k, main_freq_df>>

FindPatterns ==
    /\ pc = "fetch"
    /\ ret' = find_patterns(draws)
    /\ pc' = "called"
    /\ op' = "find_patterns"
    /\ UNCHANGED <<draws, k, main_freq_df>>

Next ==
    \/ ParseDraw
    \/ AnalyzeFrequency
    \/ AnalyzeCombinations
    \/ CalculateAdditionalStats
    \/ FindHotColdNumbers
    \/ FindPatterns

Spec == Init /\ [][Next]_vars

(* Long histories of two draws, for the gap analysis. *)
ParseDrawGap == ParseFrom(GapDraws, MaxHistory)

NextGap ==
    \/ ParseDrawGap
    \/ FindPatterns

SpecGap == Init /\ [][NextGap]_vars

----------------------------------------------------------------------------
(* What the claims speak of *)

Called(name) == op = name /\ ret.outcome = "return"

NumbersOf(i) == Range(draws[i].numbers)

(* the draws holding every number of S *)
Containing(S) == {i \in 1..Len(draws) : S \subseteq NumbersOf(i)}

Drawn == UNION {NumbersOf(i) : i \in 1..Len(draws)}

Total(t) == SumSeq(List([i \in 1..Len(t) |-> t[i].frequency]))

(* the ascending tuple of a set of numbers *)
Ascending(S) ==
    List([n \in 1..Cardinality(S) |->
            CHOOSE x \in S : Cardinality({y \in S : y < x}) = n - 1])

SubsetsOfSize(T, r) == {S \in SUBSET T : Cardinality(S) = r}

Binomial(n, r) == Cardinality(SubsetsOfSize(1..n, r))

(* C1: the table analyze_frequency returns holds exactly the numbers that  *)
(* occur in some draw, once each, each with the number (>= 1) of draws it  *)
(* occurs in, and its counts sum to len(draws) * DRAW_SIZE.                *)
C1_FrequencyTable ==
    Called("analyze_frequency") =>
        LET t == ret.value
        IN  /\ {t[i].number : i \in 1..Len(t)} = Drawn
            /\ \A i, j \in 1..Len(t) : t[i].number = t[j].number => i = j
            /\ \A i \in 1..Len(t) :
                  /\ t[i].frequency >= 1
                  /\ t[i].frequency = Cardinality(Containing({t[i].number}))
            /\ Total(t) = Len(draws) * DRAW_SIZE

C1_Witness ==
    /\ Called("analyze_frequency")
    /\ Len(draws) = 2
    /\ \E i, j \in 1..Len(ret.value) :
          ret.value[i].frequency = 2 /\ ret.value[j].frequency = 1

(* C2: for k in 1..DRAW_SIZE the table analyze_combinations returns has    *)
(* one row per k-subset of some draw, keyed by the text of its strictly    *)
(* ascending tuple, counting the draws that hold all k numbers, and its    *)
(* counts sum to len(draws) * C(DRAW_SIZE, k).                             *)
C2_CombinationTable ==
    (Called("analyze_combinations") /\ k \in 1..DRAW_SIZE) =>
        LET t == ret.value
            expected == UNION {{<<StrTuple(Ascending(S)), Cardinality(Containing(S))>> :
                                  S \in SubsetsOfSize(NumbersOf(i), k)} :
                               i \in 1..Len(draws)}
        IN  /\ {<<t[i].combination, t[i].frequency>> : i \in 1..Len(t)} = expected
            /\ \A i, j \in 1..Len(t) : t[i].combination = t[j].combination => i = j
            /\ Total(t) = Len(draws) * Binomial(DRAW_SIZE, k)

C2_Witness ==
    /\ Called("analyze_combinations")
    /\ k = 2
    /\ Len(draws) = 2
    /\ draws[2].numbers = <<40, 3, 25, 26, 2, 10, 20>>
    /\ \E i, j \in 1..Len(ret.value) :
          ret.value[i].frequency = 2 /\ ret.value[j].frequency = 1

(* the 0-based place of draw i among the draws in date order, the earlier  *)
(* of two draws of one date first                                          *)
PlaceOf(i) ==
    Cardinality({j \in 1..Len(draws) :
                    \/ draws[j].date < draws[i].date
                    \/ draws[j].date = draws[i].date /\ j < i})

(* the places, in date order, of the draws that hold num *)
PlacesOf(num) == {PlaceOf(i) : i \in Containing({num})}

(* the differences of neighbouring places *)
GapsOf(P) ==
    {q - p : <<p, q>> \in {pq \in P \X P :
                pq[1] < pq[2] /\ \A x \in P : ~(pq[1] < x /\ x < pq[2])}}

Highest(S) == CHOOSE x \in S : \A y \in S : x >= y

Lowest(S) == CHOOSE x \in S : \A y \in S : x <= y

DistinctDates == \A i, j \in 1..Len(draws) : draws[i].date = draws[j].date => i = j

(* C3: for every number find_patterns reports, with P its places in the    *)
(* draws in date order (whatever the order they were passed in), max_gap   *)
(* is the largest difference of neighbouring places, avg_gap times the     *)
(* number of gaps is the last place minus the first, and current_gap is    *)
(* the number of draws minus the last place.                               *)
C3_GapsByDate ==
    Called("find_patterns") =>
        \A num \in DOMAIN ret.value.number_gaps :
            LET rec == ret.value.number_gaps[num]
                P == PlacesOf(num)
            IN  /\ Cardinality(P) >= 2
                /\ rec.max_gap = Highest(GapsOf(P))
                /\ rec.avg_gap.den = Cardinality(P) - 1
                /\ rec.avg_gap.num = Highest(P) - Lowest(P)
                /\ rec.current_gap = Len(draws) - Highest(P)

(* places [2, 5, 9] of 10 draws, passed in newest first: gaps [3, 4] *)
C3_Witness ==
    /\ Called("find_patterns")
    /\ Len(draws) = 10
    /\ DistinctDates
    /\ draws[1].date > draws[2].date
    /\ PlacesOf(2) = {2, 5, 9}
    /\ ret.value.number_gaps[2] =
          [avg_gap |-> Ratio(7, 2), max_gap |-> 4, current_gap |-> 1]

(* C4: find_hot_cold_numbers scores every number of the pool: the numbers  *)
(* never drawn, at frequency 0 and deviation -100, fill the head of the    *)
(* cold list before any number that was drawn.                             *)
C4_AbsentNumbersScored ==
    (Called("find_hot_cold_numbers") /\ draws # <<>>) =>
        LET cold == ret.value.cold
            absent == Pool \ Drawn
            n == IF Cardinality(absent) < HOT_COLD_TOP_N
                 THEN Cardinality(absent) ELSE HOT_COLD_TOP_N
        IN  /\ Len(cold) >= n
            /\ \A i \in 1..n :
                  /\ cold[i].number \in absent
                  /\ cold[i].frequency = 0
                  /\ cold[i].deviation.num = (0 - 100) * cold[i].deviation.den

(* C5: analyze_combinations ends in an error, and returns no table, for    *)
(* every tuple size outside 1..DRAW_SIZE.                                  *)
C5_BadSizeRejected ==
    (op = "analyze_combinations" /\ k \notin 1..DRAW_SIZE) => ret.outcome = "raise"

SameDeviation(a, b) == a.deviation.num * b.deviation.den = b.deviation.num * a.deviation.den

TiesAscending(rows) ==
    \A i, j \in 1..Len(rows) :
        (i < j /\ SameDeviation(rows[i], rows[j])) => rows[i].number < rows[j].number

(* C6: in the hot list and in the cold list, of two numbers of equal       *)
(* deviation the smaller comes first.                                      *)
C6_TiesByNumber ==
    Called("find_hot_cold_numbers") =>
        TiesAscending(ret.value.hot) /\ TiesAscending(ret.value.cold)

(* C7: on no draws no analyzer raises: calculate_additional_stats returns  *)
(* the empty record, analyze_frequency the empty table, find_patterns an   *)
(* empty number_gaps.                                                      *)
C7_EmptyInput ==
    (draws = <<>> /\ op # "none") =>
        /\ ret.outcome = "return"
        /\ op = "calculate_additional_stats" => DOMAIN ret.value = {}
        /\ op = "analyze_frequency" => ret.value = <<>>
        /\ op = "find_patterns" => DOMAIN ret.value.number_gaps = {}

C7_Witness ==
    /\ draws = <<>>
    /\ Called("calculate_additional_stats")
    /\ DOMAIN ret.value = {}

TheSingleDraw == Len(draws) = 1 /\ NumbersOf(1) = {1, 2, 3, 10, 20, 30, 40}

SingleDrawStats(odd) ==
    /\ ret.value.odd_even_distribution = <<[label |-> OddLabel(odd), count |-> 1]>>
    /\ ret.value.avg_odd_numbers = Ratio(odd, 1)
    /\ ret.value.high_low_distribution = <<[label |-> HighLabel(2), count |-> 1]>>
    /\ ret.value.avg_high_numbers = Ratio(2, 1)
    /\ ret.value.consecutive_pairs_distribution = <<[label |-> PairsLabel(2), count |-> 1]>>
    /\ ret.value.avg_consecutive_pairs = Ratio(2, 1)
    /\ ret.value.average_sum = Ratio(106, 1)
    /\ ret.value.min_sum = 106
    /\ ret.value.max_sum = 106
    /\ ret.value.avg_range = Ratio(39, 1)
    /\ ret.value.min_range = 39
    /\ ret.value.max_range = 39

(* C8, as claimed: for the single draw {1,2,3,10,20,30,40} the statistics  *)
(* are odd_count 4, high_count 2, consecutive_pairs 2, sum 106, range 39.  *)
C8_AsClaimed ==
    (Called("calculate_additional_stats") /\ TheSingleDraw) => SingleDrawStats(4)

(* C8, as amended: for the single draw {1,2,3,10,20,30,40} the statistics  *)
(* are odd_count 2 (1 and 3), high_count 2, consecutive_pairs 2, sum 106,  *)
(* range 39.                                                               *)
C8_SingleDraw ==
    (Called("calculate_additional_stats") /\ TheSingleDraw) => SingleDrawStats(2)

C8_Witness ==
    /\ Called("calculate_additional_stats")
    /\ TheSingleDraw
    /\ ret.value.odd_even_distribution[1].label = <<2, " odd, ", 5, " even">>

(* the buckets of the values the draws take (values[i] that of draw i):    *)
(* one per value taken, in ascending order, counting the draws taking it   *)
BucketsOf(values) ==
    LET asc == Ascending(Range(values))
    IN  List([n \in 1..Len(asc) |->
                [value |-> asc[n],
                 count |-> Cardinality({i \in 1..Len(values) : values[i] = asc[n]})]])

OddsOf(i) == Cardinality({x \in NumbersOf(i) : x % 2 = 1})

HighsOf(i) == Cardinality({x \in NumbersOf(i) : x > 25})

NeighboursOf(i) == Cardinality({x \in NumbersOf(i) : x + 1 \in NumbersOf(i)})

OddBuckets ==
    LET b == BucketsOf(List([i \in 1..Len(draws) |-> OddsOf(i)]))
    IN  List([n \in 1..Len(b) |->
                [label |-> <<b[n].value, " odd, ", 7 - b[n].value, " even">>,
                 count |-> b[n].count]])

HighBuckets ==
    LET b == BucketsOf(List([i \in 1..Len(draws) |-> HighsOf(i)]))
    IN  List([n \in 1..Len(b) |->
                [label |-> <<b[n].value, " high, ", 7 - b[n].value, " low">>,
                 count |-> b[n].count]])

PairsBuckets ==
    LET b == BucketsOf(List([i \in 1..Len(draws) |-> NeighboursOf(i)]))
    IN  List([n \in 1..Len(b) |->
                [label |-> <<b[n].value, " consecutive pairs">>, count |-> b[n].count]])

(* C9: on draws that are not empty, each draw falls in one bucket of each  *)
(* distribution: by its number of odd values, by its number of values      *)
(* above 25 (25 is low), by its number of values whose successor is drawn  *)
(* too (a run of 3 counts 2); a bucket of v is labelled with 7 - v even /  *)
(* low, and each distribution's counts sum to len(draws).                  *)
C9_Distributions ==
    (Called("calculate_additional_stats") /\ draws # <<>>) =>
        LET v == ret.value
            Counts(d) == SumSeq(List([i \in 1..Len(d) |-> d[i].count]))
        IN  /\ v.odd_even_distribution = OddBuckets
            /\ v.high_low_distribution = HighBuckets
            /\ v.consecutive_pairs_distribution = PairsBuckets
            /\ Counts(v.odd_even_distribution) = Len(draws)
            /\ Counts(v.high_low_distribution) = Len(draws)
            /\ Counts(v.consecutive_pairs_distribution) = Len(draws)

C9_Witness ==
    /\ Called("calculate_additional_stats")
    /\ Len(draws) = 3
    /\ \E i \in 1..Len(draws) : 25 \in NumbersOf(i)
    /\ \E i \in 1..Len(draws) : {26, 27, 28} \subseteq NumbersOf(i)
    /\ Len(ret.value.high_low_distribution) = 2
    /\ Len(ret.value.consecutive_pairs_distribution) = 2

(* C10: find_patterns reports a number of the pool if and only if it       *)
(* occurs in at least two draws; every reported max_gap is >= 1 and every  *)
(* reported current_gap is a number in 1..len(draws)-1 (never None).       *)
C10_ReportedTwice ==
    Called("find_patterns") =>
        /\ DOMAIN ret.value.number_gaps =
              {num \in Pool : Cardinality(Containing({num})) >= 2}
        /\ \A num \in DOMAIN ret.value.number_gaps :
              /\ ret.value.number_gaps[num].max_gap >= 1
              /\ ret.value.number_gaps[num].current_gap \in 1..(Len(draws) - 1)

(* a number drawn once and a number never drawn are left out, one drawn    *)
(* twice is reported                                                       *)
C10_Witness ==
    /\ Called("find_patterns")
    /\ Cardinality(Containing({2})) = 1
    /\ Cardinality(Containing({49})) >= 2
    /\ Cardinality(Containing({5})) = 0
    /\ DOMAIN ret.value.number_gaps \cap {2, 5, 49} = {49}

====
